---- MODULE Spec2Model ----
(***************************************************************************)
(* Model of create_icon.py: the two icon renderers (create_icon and        *)
(* create_menu_bar_icon) and the module-level driver that renders every    *)
(* size and saves the PNG files.                                           *)
(*                                                                         *)
(* An image is the list of drawing commands applied to a fresh canvas, in  *)
(* the order the code issues them, with the coordinates the drawing        *)
(* library receives.  The library casts every coordinate to a C int, so    *)
(* the coordinates are stored truncated.  What a command does to a pixel   *)
(* is given by MustTouch (pixels it certainly writes) and MayTouch (the    *)
(* bounding box outside which it writes nothing).  A draw on an RGBA image *)
(* stores the fill, alpha included, in the pixel; it does not blend.       *)
(***************************************************************************)
EXTENDS Integers, Sequences, FiniteSets, TLC

(* Number of times the script is run, one process after the other. *)
MaxRuns == 2

Max(a, b) == IF a >= b THEN a ELSE b
Min(a, b) == IF a <= b THEN a ELSE b
MinOf(S) == CHOOSE x \in S : \A y \in S : x <= y
MaxOf(S) == CHOOSE x \in S : \A y \in S : x >= y
Abs(a) == IF a >= 0 THEN a ELSE 0 - a

(***************************************************************************)
(* Python arithmetic.                                                      *)
(***************************************************************************)

(* size // 1.8 : float floor division.  The double nearest to 1.8 lies     *)
(* above 1.8, so the quotient of an exact multiple falls one short.        *)
FloorDiv1_8(a) ==
    LET q == (a * 10) \div 18
    IN  IF a > 0 /\ (a * 10) % 18 = 0 THEN q - 1 ELSE q

(* size // 1.6 : the double nearest to 1.6 lies above 1.6 as well.         *)
FloorDiv1_6(a) ==
    LET q == (a * 10) \div 16
    IN  IF a > 0 /\ (a * 10) % 16 = 0 THEN q - 1 ELSE q

(* math.sin(i / 7.0 * math.pi) and math.sin(i / 5.0 * math.pi), times 10^5 *)
(* (index i + 1).  sin(pi) is 1.2e-16 in floating point; int() of any      *)
(* product used here is 0.                                                 *)
SinPi7 == <<0, 43388, 78183, 97493, 97493, 78183, 43388, 0>>
SinPi5 == <<0, 58779, 95106, 95106, 58779, 0>>

(* int(width * math.sin(progress * math.pi) * c) with c = c10 / 10.        *)
CurveOffset(width, sinE5, c10) == (width * sinE5 * c10) \div 1000000

(***************************************************************************)
(* Images and drawing commands.                                            *)
(***************************************************************************)
Op(tag, kind, pts, fill, width) ==
    [tag |-> tag, kind |-> kind, pts |-> pts, fill |-> fill, width |-> width]

NoImage == [size |-> <<0, 0>>, ops |-> <<>>]

DrawAll(img, opseq) == [img EXCEPT !.ops = @ \o opseq]

Xs(op) == {op.pts[n][1] : n \in 1..Len(op.pts)}
Ys(op) == {op.pts[n][2] : n \in 1..Len(op.pts)}

(* Bounding box <<x0, y0, x1, y1>> (inclusive) of the pixels a command can *)
(* write: the extent of its points, widened by the pen width for a line.   *)
Box(op) ==
    LET m == IF op.kind = "line" THEN op.width ELSE 0
    IN  <<MinOf(Xs(op)) - m, MinOf(Ys(op)) - m,
          MaxOf(Xs(op)) + m, MaxOf(Ys(op)) + m>>

InBox(b, p) == b[1] <= p[1] /\ p[1] <= b[3] /\ b[2] <= p[2] /\ p[2] <= b[4]
Disjoint(b, c) == b[3] < c[1] \/ c[3] < b[1] \/ b[4] < c[2] \/ c[4] < b[2]

Whole(op) == op.kind \in {"hlines", "putalpha"}

MayTouch(op, p) == Whole(op) \/ InBox(Box(op), p)

(* A horizontal line writes every pixel of its centre row between its end  *)
(* points; a filled ellipse writes the centre of its bounding box.         *)
MustTouch(op, p) ==
    \/ Whole(op)
    \/ /\ op.kind = "line"
       /\ op.pts[1][2] = op.pts[2][2]
       /\ p[2] = op.pts[1][2]
       /\ Min(op.pts[1][1], op.pts[2][1]) <= p[1]
       /\ p[1] <= Max(op.pts[1][1], op.pts[2][1])
    \/ /\ op.kind = "ellipse"
       /\ op.pts[1][1] <= op.pts[2][1] /\ op.pts[1][2] <= op.pts[2][2]
       /\ p[1] = (op.pts[1][1] + op.pts[2][1]) \div 2
       /\ p[2] = (op.pts[1][2] + op.pts[2][2]) \div 2

(***************************************************************************)
(* The state of the script and of the file system it writes to.            *)
(***************************************************************************)
VARIABLES
    pc,         \* the statement the driver is at
    i,          \* position of the loop `for size in sizes` (1-based)
    k,          \* which of the three menu bar icons is next
    icon,       \* Python variable icon
    icon_2x,    \* Python variable icon_2x
    menu_icon,  \* Python variables menu_icon, menu_icon_2x, menu_icon_3x
    fs,         \* file system: the two directories and the files in them
    fs0,        \* the file system as the current run found it
    trace,      \* file system calls the current run has completed
    out,        \* lines printed by the current run
    failed,     \* an exception has been raised in the current run
    run         \* number of the current run

vars == <<pc, i, k, icon, icon_2x, menu_icon, fs, fs0, trace, out, failed, run>>

(***************************************************************************)
(* create_icon(size).                                                      *)
(***************************************************************************)
White == <<255, 255, 255, 255>>
BarbFill == <<76, 84, 200, 180>>
DotFill == <<255, 255, 255, 220>>

(* A canvas kept from the previous call instead of a new one. *)
NewImage_reused(size) == [icon_2x EXCEPT !.size = <<size, size>>]

(* Image.new('RGBA', (size, size), (0, 0, 0, 0)) *)
NewImage(size) == [size |-> <<size, size>>, ops |-> <<>>]

(* int(a * (1 - ratio) + b * ratio) with ratio = y / size *)
Lerp(a, b, y, size) == (a * (size - y) + b * y) \div size

GradientColor(size, y) ==
    <<Lerp(76, 110, y, size), Lerp(84, 115, y, size), Lerp(200, 230, y, size), 255>>

(* The loop over the rows: row y is drawn from (0, y) to (size, y) in      *)
(* GradientColor(size, y).  fill holds the colours of the first and of the *)
(* last row.                                                               *)
Gradient(size) ==
    Op("gradient", "hlines", <<<<0, 0>>, <<size, size - 1>>>>,
       <<GradientColor(size, 0), GradientColor(size, size - 1)>>, 1)

corner_radius_half(size) == size \div 2

corner_radius(size) == size \div 8

(* putalpha of the rounded rectangle [0, 0, size, size]; width holds the   *)
(* corner radius.                                                          *)
Mask(size) ==
    Op("mask", "putalpha", <<<<0, 0>>, <<size, size>>>>, <<0, 0, 0, 255>>,
       corner_radius(size))

center(size) == size \div 2
feather_height(size) == FloorDiv1_8(size)
feather_width(size) == feather_height(size) \div 3
feather_x(size) == center(size) - size \div 8
feather_y(size) == center(size)

shaft_width_unclamped(size) == size \div 40

shaft_width(size) == Max(2, size \div 40)

Shaft(size) ==
    LET fh == feather_height(size)
    IN  Op("shaft", "line",
           <<<<feather_x(size), feather_y(size) + fh \div 2>>,
             <<feather_x(size) + fh \div 8, feather_y(size) - fh \div 2>>>>,
           White, shaft_width(size))

(* offset_y = feather_y - feather_height // 2 + feather_height * (n / 7.0) *)
VaneY(size, n) ==
    feather_y(size) - feather_height(size) \div 2 + (feather_height(size) * n) \div 7

vane_points_left(size) ==
    [n \in 1..8 |->
        <<feather_x(size) - CurveOffset(feather_width(size), SinPi7[n], 7),
          VaneY(size, n - 1)>>]

vane_points_right(size) ==
    [n \in 1..8 |->
        <<feather_x(size) + CurveOffset(feather_width(size), SinPi7[n], 4)
            + feather_height(size) \div 12,
          VaneY(size, n - 1)>>]

Reversed(s) == [n \in 1..Len(s) |-> s[Len(s) + 1 - n]]

Feather(size) ==
    Op("feather", "polygon",
       vane_points_left(size) \o Reversed(vane_points_right(size)), White, 0)

barb_width(size) == Max(1, size \div 80)

(* detail_y = feather_y - feather_height // 2 + feather_height * (n / 7.0) * 0.8 *)
DetailY(size, n) ==
    feather_y(size) - feather_height(size) \div 2
        + (feather_height(size) * n * 4) \div 35

LeftBarb(size, n) ==
    Op("barb", "line",
       <<<<feather_x(size), DetailY(size, n)>>,
         <<feather_x(size) - CurveOffset(feather_width(size), SinPi7[n + 1], 5),
           DetailY(size, n)>>>>,
       BarbFill, barb_width(size))

RightBarb(size, n) ==
    Op("barb", "line",
       <<<<feather_x(size) + feather_height(size) \div 24, DetailY(size, n)>>,
         <<feather_x(size) + CurveOffset(feather_width(size), SinPi7[n + 1], 3)
             + feather_height(size) \div 12,
           DetailY(size, n)>>>>,
       BarbFill, barb_width(size))

(* for i in range(1, 7): left barb, then right barb *)
Barbs(size) ==
    [n \in 1..12 |->
        IF n % 2 = 1 THEN LeftBarb(size, (n + 1) \div 2)
                     ELSE RightBarb(size, n \div 2)]

dot_positions(size) ==
    << <<center(size) + size \div 4, center(size) - size \div 12>>,
       <<center(size) + size \div 6, center(size) + size \div 8>>,
       <<center(size) + size \div 3, center(size) + size \div 16>> >>

(* n = 1, 2, 3 for the code's i = 0, 1, 2 *)
dot_size(size, n) ==
    IF n = 1 THEN Max(2, size \div 25)
    ELSE IF n = 2 THEN Max(1, size \div 35)
    ELSE Max(1, size \div 45)

Dot(pos, d, fill) ==
    Op("dot", "ellipse",
       <<<<pos[1] - d, pos[2] - d>>, <<pos[1] + d, pos[2] + d>>>>, fill, 0)

Dots(size) ==
    [n \in 1..3 |-> Dot(dot_positions(size)[n], dot_size(size, n), DotFill)]

triangle_size(size) == Max(3, size \div 30)

Triangle(size) ==
    LET tx == center(size) + size \div 5
        ty == center(size) - size \div 8
        ts == triangle_size(size)
    IN  Op("triangle", "polygon",
           << <<tx, ty - ts>>,
              <<tx - ts \div 2, ty + ts \div 2>>,
              <<tx + ts \div 2, ty + ts \div 2>> >>,
           White, 0)

create_icon(size) ==
    DrawAll(NewImage(size),
            <<Gradient(size), Mask(size), Shaft(size), Feather(size)>>
                \o Barbs(size) \o Dots(size) \o <<Triangle(size)>>)

(***************************************************************************)
(* create_menu_bar_icon(size).                                             *)
(***************************************************************************)
menu_feather_height(size) == FloorDiv1_6(size)
menu_feather_width(size) == menu_feather_height(size) \div 3

MenuShaft(size) ==
    LET fh == menu_feather_height(size)
    IN  Op("shaft", "line",
           <<<<feather_x(size), feather_y(size) + fh \div 2>>,
             <<feather_x(size) + fh \div 8, feather_y(size) - fh \div 2>>>>,
           White, Max(1, size \div 12))

MenuVaneY(size, n) ==
    feather_y(size) - menu_feather_height(size) \div 2
        + (menu_feather_height(size) * n) \div 5

(* left side for progress 0/5 .. 5/5, then right side for 5/5 .. 0/5 *)
menu_vane_points(size) ==
    [n \in 1..12 |->
        IF n <= 6
        THEN <<feather_x(size)
                 - CurveOffset(menu_feather_width(size), SinPi5[n], 6),
               MenuVaneY(size, n - 1)>>
        ELSE <<feather_x(size)
                 + CurveOffset(menu_feather_width(size), SinPi5[13 - n], 3)
                 + menu_feather_height(size) \div 12,
               MenuVaneY(size, 12 - n)>>]

menu_dot_positions(size) ==
    << <<center(size) + size \div 4, center(size) - size \div 12>>,
       <<center(size) + size \div 5, center(size) + size \div 8>> >>

MenuDots(size) ==
    [n \in 1..2 |-> Dot(menu_dot_positions(size)[n], Max(1, size \div 16), White)]

create_menu_bar_icon(size) ==
    DrawAll(NewImage(size),
            <<MenuShaft(size), Op("feather", "polygon", menu_vane_points(size), White, 0)>>
                \o MenuDots(size))

(***************************************************************************)
(* The file system.  A path is a directory and a base name; fs.dirs says   *)
(* what is at the directory's path, fs.files what each directory holds.    *)
(***************************************************************************)
sizes == <<16, 32, 64, 128, 256, 512, 1024>>
icon_dir == "Promptify/Assets.xcassets/AppIcon.appiconset"
menu_iconset_dir == "Promptify/Assets.xcassets/MenuBarIcon.imageset"
MenuSizes == <<16, 32, 48>>
MenuNames == <<"menubar_16.png", "menubar_16@2x.png", "menubar_16@3x.png">>
Dirs == {icon_dir, menu_iconset_dir}

(* f"icon_{size}x{size}.png" and f"icon_{size}x{size}@2x.png" *)
IconName(size) == "icon_" \o ToString(size) \o "x" \o ToString(size) \o ".png"
IconName2x(size) == "icon_" \o ToString(size) \o "x" \o ToString(size) \o "@2x.png"

(* img.save(path): the file holds the PNG encoding of the image *)
PNG(img) == [format |-> "PNG", image |-> img]
StaleContent == [format |-> "stale", image |-> NoImage]
TruncatedContent == [format |-> "truncated", image |-> NoImage]
NoFiles == [n \in {} |-> StaleContent]

(* A directory creation that starts from an empty directory. *)
MakeDirs_emptied(f, d) == [f EXCEPT !.dirs[d] = "dir", !.files[d] = NoFiles]

(* os.makedirs(d, exist_ok=True), when it succeeds *)
MakeDirs(f, d) == [f EXCEPT !.dirs[d] = "dir"]

WriteFile(f, d, name, content) ==
    [f EXCEPT !.files[d] =
        [n \in (DOMAIN @) \cup {name} |-> IF n = name THEN content ELSE @[n]]]

(* os.listdir(d) *)
ListDir(f, d) == DOMAIN f.files[d]

(* What a run can find at a directory's path: nothing, a regular file, or  *)
(* the directory with any of the given files left in it.                   *)
DirStates(names) ==
    {[status |-> "absent", files |-> NoFiles], [status |-> "file", files |-> NoFiles]}
    \cup {[status |-> "dir", files |-> [n \in S |-> StaleContent]] : S \in SUBSET names}

InitialFileSystems ==
    {[dirs |-> (icon_dir :> a.status) @@ (menu_iconset_dir :> m.status),
      files |-> (icon_dir :> a.files) @@ (menu_iconset_dir :> m.files)] :
        a \in DirStates({"Contents.json", "icon_16x16.png"}),
        m \in DirStates({"Contents.json", "menubar_16.png"})}

(***************************************************************************)
(* The driver (module-level code).                                         *)
(***************************************************************************)
Init ==
    /\ pc = "mkdir_icon"
    /\ i = 1
    /\ k = 1
    /\ icon = NoImage
    /\ icon_2x = NoImage
    /\ menu_icon = [n \in 1..3 |-> NoImage]
    /\ fs \in InitialFileSystems
    /\ fs0 = fs
    /\ trace = <<>>
    /\ out = <<>>
    /\ failed = FALSE
    /\ run = 1

size == sizes[i]

Ctl(p, ii, kk) == [pc |-> p, i |-> ii, k |-> kk]
Here == Ctl(pc, i, k)

Needs2x_below(s) == s < 512

(* if size <= 512 *)
Needs2x(s) == s <= 512

Scale2x_same(s) == s

(* size * 2 *)
Scale2x(s) == s * 2

(* next iteration of `for size in sizes`, or the statement after the loop *)
NextIteration ==
    IF i < Len(sizes) THEN Ctl("create", i + 1, k) ELSE Ctl("mkdir_menu", i, k)

(* An exception that is caught and ignored: the script goes on. *)
AfterFailure_ignored(cur, next) == next

(* No statement of the script catches an exception: it ends the process. *)
AfterFailure(cur, next) == [cur EXCEPT !.pc = "aborted"]

Goto(c) == pc' = c.pc /\ i' = c.i /\ k' = c.k

MkdirPcs == {"mkdir_icon", "mkdir_menu"}
MkdirTarget == IF pc = "mkdir_icon" THEN icon_dir ELSE menu_iconset_dir
MkdirBanner ==
    IF pc = "mkdir_icon" THEN "Creating icons in: " \o icon_dir
    ELSE "Creating menu bar icons in: " \o menu_iconset_dir
MkdirNext == IF pc = "mkdir_icon" THEN Ctl("create", 1, k) ELSE Ctl("menu_create", i, 1)

(* print(...); os.makedirs(icon_dir, exist_ok=True) *)
MakeIconDir ==
    /\ pc = "mkdir_icon"
    /\ fs.dirs[icon_dir] # "file"
    /\ out' = Append(out, MkdirBanner)
    /\ fs' = MakeDirs(fs, icon_dir)
    /\ trace' = Append(trace, <<"makedirs", icon_dir, "">>)
    /\ Goto(MkdirNext)
    /\ UNCHANGED <<icon, icon_2x, menu_icon, fs0, failed, run>>

(* print(...); os.makedirs(menu_iconset_dir, exist_ok=True) *)
MakeMenuDir ==
    /\ pc = "mkdir_menu"
    /\ fs.dirs[menu_iconset_dir] # "file"
    /\ out' = Append(out, MkdirBanner)
    /\ fs' = MakeDirs(fs, menu_iconset_dir)
    /\ trace' = Append(trace, <<"makedirs", menu_iconset_dir, "">>)
    /\ Goto(MkdirNext)
    /\ UNCHANGED <<icon, icon_2x, menu_icon, fs0, failed, run>>

(* os.makedirs raises: the path is a regular file, or the directory is     *)
(* absent and cannot be created.  An existing directory never raises.      *)
MakeDirFails ==
    /\ pc \in MkdirPcs
    /\ fs.dirs[MkdirTarget] \in {"absent", "file"}
    /\ out' = Append(out, MkdirBanner)
    /\ failed' = TRUE
    /\ Goto(AfterFailure(Here, MkdirNext))
    /\ UNCHANGED <<icon, icon_2x, menu_icon, fs, fs0, trace, run>>

(* print(...); icon = create_icon(size) *)
CreateIcon ==
    /\ pc = "create"
    /\ out' = Append(out, "Creating icon " \o ToString(size) \o "x" \o ToString(size) \o "...")
    /\ icon' = create_icon(size)
    /\ Goto(Ctl("save", i, k))
    /\ UNCHANGED <<icon_2x, menu_icon, fs, fs0, trace, failed, run>>

(* print(...); icon_2x = create_icon(size * 2) *)
CreateIcon2x ==
    /\ pc = "create2x"
    /\ out' = Append(out, "Creating icon " \o ToString(size) \o "x" \o ToString(size) \o "@2x...")
    /\ icon_2x' = create_icon(Scale2x(size))
    /\ Goto(Ctl("save2x", i, k))
    /\ UNCHANGED <<icon, menu_icon, fs, fs0, trace, failed, run>>

(* menu_icon = create_menu_bar_icon(16), ..._2x (32), ..._3x (48) *)
CreateMenuIcon ==
    /\ pc = "menu_create"
    /\ menu_icon' = [menu_icon EXCEPT ![k] = create_menu_bar_icon(MenuSizes[k])]
    /\ Goto(Ctl("menu_save", i, k))
    /\ UNCHANGED <<icon, icon_2x, fs, fs0, trace, out, failed, run>>

SavePcs == {"save", "save2x", "menu_save"}
SaveDir == IF pc = "menu_save" THEN menu_iconset_dir ELSE icon_dir
SaveName ==
    IF pc = "save" THEN IconName(size)
    ELSE IF pc = "save2x" THEN IconName2x(size)
    ELSE MenuNames[k]
SaveImage ==
    IF pc = "save" THEN icon ELSE IF pc = "save2x" THEN icon_2x ELSE menu_icon[k]
SaveNext ==
    IF pc = "save" THEN (IF Needs2x(size) THEN Ctl("create2x", i, k) ELSE NextIteration)
    ELSE IF pc = "save2x" THEN NextIteration
    ELSE (IF k < Len(MenuSizes) THEN Ctl("menu_create", i, k + 1) ELSE Ctl("summary", i, k))
(* only the app icon saves are followed by print(f"Saved: {filename}") *)
SaveLines ==
    IF pc = "menu_save" THEN <<>> ELSE <<"Saved: " \o SaveDir \o "/" \o SaveName>>

Save ==
    /\ pc \in SavePcs
    /\ fs.dirs[SaveDir] = "dir"
    /\ fs' = WriteFile(fs, SaveDir, SaveName, PNG(SaveImage))
    /\ trace' = Append(trace, <<"save", SaveDir, SaveName>>)
    /\ out' = out \o SaveLines
    /\ Goto(SaveNext)
    /\ UNCHANGED <<icon, icon_2x, menu_icon, fs0, failed, run>>

(* filename = ...; icon.save(filename); print(...) *)
SaveIcon == pc = "save" /\ Save

(* filename_2x = ...; icon_2x.save(filename_2x); print(...) *)
SaveIcon2x == pc = "save2x" /\ Save

(* menu_icon.save(...), menu_icon_2x.save(...), menu_icon_3x.save(...) *)
SaveMenuIcon == pc = "menu_save" /\ Save

(* save raises.  The file is opened for writing before it is encoded, so   *)
(* the failure leaves the target as it was or leaves it truncated; with no *)
(* directory to write into it always raises.                               *)
SaveFails ==
    /\ pc \in SavePcs
    /\ \/ fs' = fs
       \/ /\ fs.dirs[SaveDir] = "dir"
          /\ fs' = WriteFile(fs, SaveDir, SaveName, TruncatedContent)
    /\ failed' = TRUE
    /\ Goto(AfterFailure(Here, SaveNext))
    /\ UNCHANGED <<icon, icon_2x, menu_icon, fs0, trace, out, run>>

(* the four print statements that end the script *)
PrintSummary ==
    /\ pc = "summary"
    /\ out' = out \o
        <<"Beautiful feather-based icons created successfully!",
          "\nFiles created:",
          "- App icons: " \o ToString(Cardinality(ListDir(fs, icon_dir))) \o " files",
          "- Menu bar icons: " \o ToString(Cardinality(ListDir(fs, menu_iconset_dir))) \o " files">>
    /\ Goto(Ctl("done", i, k))
    /\ UNCHANGED <<icon, icon_2x, menu_icon, fs, fs0, trace, failed, run>>

(* The script is run again, in a new process, after a complete run: only   *)
(* the file system is carried over.                                        *)
RunAgain ==
    /\ pc = "done"
    /\ run < MaxRuns
    /\ run' = run + 1
    /\ pc' = "mkdir_icon" /\ i' = 1 /\ k' = 1
    /\ icon' = NoImage /\ icon_2x' = NoImage
    /\ menu_icon' = [n \in 1..3 |-> NoImage]
    /\ fs0' = fs
    /\ trace' = <<>> /\ out' = <<>> /\ failed' = FALSE
    /\ UNCHANGED fs

Next ==
    \/ MakeIconDir
    \/ MakeMenuDir
    \/ MakeDirFails
    \/ CreateIcon
    \/ SaveIcon
    \/ CreateIcon2x
    \/ SaveIcon2x
    \/ CreateMenuIcon
    \/ SaveMenuIcon
    \/ SaveFails
    \/ PrintSummary
    \/ RunAgain

Spec == Init /\ [][Next]_vars

(***************************************************************************)
(* Pixels of a rendered image.                                             *)
(***************************************************************************)
Pixels(img) == (0..(img.size[1] - 1)) \X (0..(img.size[2] - 1))

MaskIndex(img) == CHOOSE j \in 1..Len(img.ops) : img.ops[j].kind = "putalpha"

(* The rounded rectangle is filled as a cross of three rectangles plus a   *)
(* quarter disc in each corner.  Every pixel outside the four corner boxes *)
(* is in the cross; inside a corner box the quarter disc decides.          *)
CornerBoxes(img) ==
    LET s == img.size[1]
        r == img.ops[MaskIndex(img)].width
    IN  {<<0, 0, r, r>>, <<s - r, 0, s - 1, r>>,
         <<0, s - r, r, s - 1>>, <<s - r, s - r, s - 1, s - 1>>}

(* The values the mask can have at a pixel. *)
MaskAlphaSet(img, p) ==
    IF \E c \in CornerBoxes(img) : InBox(c, p) THEN {0, 255} ELSE {255}

(* The alpha values pixel p can have after the first n commands, where m   *)
(* is the value of the mask at p.                                          *)
RECURSIVE AlphaFrom(_, _, _, _)
AlphaFrom(ops, n, p, m) ==
    IF n = 0 THEN {0}
    ELSE IF ops[n].kind = "putalpha" THEN {m}
    ELSE IF ops[n].kind = "hlines" THEN {255}
    ELSE IF MustTouch(ops[n], p) THEN {ops[n].fill[4]}
    ELSE IF MayTouch(ops[n], p) THEN {ops[n].fill[4]} \cup AlphaFrom(ops, n - 1, p, m)
    ELSE AlphaFrom(ops, n - 1, p, m)

AlphaSet(img, p, m) == AlphaFrom(img.ops, Len(img.ops), p, m)

(* The images create_icon has returned to the driver. *)
Returned == {img \in {icon, icon_2x} : img # NoImage}

Tagged(img, tag) == {j \in 1..Len(img.ops) : img.ops[j].tag = tag}

(***************************************************************************)
(* What the current run has done, read from its trace.                     *)
(***************************************************************************)
SaveCount(d, n) == Cardinality({j \in 1..Len(trace) : trace[j] = <<"save", d, n>>})
Saved == {<<trace[j][2], trace[j][3]>> : j \in {j \in 1..Len(trace) : trace[j][1] = "save"}}
Printed(line) == \E j \in 1..Len(out) : out[j] = line

AppIconNames ==
    {"icon_16x16.png", "icon_32x32.png", "icon_64x64.png", "icon_128x128.png",
     "icon_256x256.png", "icon_512x512.png", "icon_1024x1024.png",
     "icon_16x16@2x.png", "icon_32x32@2x.png", "icon_64x64@2x.png",
     "icon_128x128@2x.png", "icon_256x256@2x.png", "icon_512x512@2x.png"}
MenuBarNames == {"menubar_16.png", "menubar_16@2x.png", "menubar_16@3x.png"}
ExpectedPaths == ({icon_dir} \X AppIconNames) \cup ({menu_iconset_dir} \X MenuBarNames)

(* C1: a complete run saves exactly the 13 app icon files and the 3 menu   *)
(* bar files, each exactly once (and no run saves any other file or saves  *)
(* a file twice); from empty or absent output directories the AppIcon      *)
(* directory ends with exactly those 13 files and the MenuBarIcon          *)
(* directory with exactly those 3.                                         *)
C1_FilesWritten ==
    /\ Saved \subseteq ExpectedPaths
    /\ \A q \in Saved : SaveCount(q[1], q[2]) = 1
    /\ pc = "done" =>
        /\ Saved = ExpectedPaths
        /\ ListDir(fs0, icon_dir) = {} =>
            /\ ListDir(fs, icon_dir) = AppIconNames
            /\ Cardinality(ListDir(fs, icon_dir)) = 13
        /\ ListDir(fs0, menu_iconset_dir) = {} =>
            /\ ListDir(fs, menu_iconset_dir) = MenuBarNames
            /\ Cardinality(ListDir(fs, menu_iconset_dir)) = 3

C1_Witness ==
    /\ pc = "done"
    /\ run = 1
    /\ fs0.dirs[icon_dir] = "absent"
    /\ ListDir(fs0, menu_iconset_dir) = {}
    /\ Cardinality(ListDir(fs, icon_dir)) = 13

AppIconEdges ==
    {<<"icon_16x16.png", 16>>, <<"icon_32x32.png", 32>>, <<"icon_64x64.png", 64>>,
     <<"icon_128x128.png", 128>>, <<"icon_256x256.png", 256>>,
     <<"icon_512x512.png", 512>>, <<"icon_1024x1024.png", 1024>>,
     <<"icon_16x16@2x.png", 32>>, <<"icon_32x32@2x.png", 64>>,
     <<"icon_64x64@2x.png", 128>>, <<"icon_128x128@2x.png", 256>>,
     <<"icon_256x256@2x.png", 512>>, <<"icon_512x512@2x.png", 1024>>}
MenuBarEdges ==
    {<<"menubar_16.png", 16>>, <<"menubar_16@2x.png", 32>>, <<"menubar_16@3x.png", 48>>}

(* C2: every file a run has saved holds a square image whose edge matches  *)
(* its name: N for icon_NxN.png, 2N for icon_NxN@2x.png, where the image   *)
(* is what the full renderer returns for that edge; 16, 32, 48 for the     *)
(* menu bar files, from the menu bar renderer.                             *)
C2_EdgeMatchesName ==
    /\ \A e \in AppIconEdges : <<icon_dir, e[1]>> \in Saved =>
        /\ fs.files[icon_dir][e[1]].format = "PNG"
        /\ fs.files[icon_dir][e[1]].image.size = <<e[2], e[2]>>
        /\ fs.files[icon_dir][e[1]].image = create_icon(e[2])
    /\ \A e \in MenuBarEdges : <<menu_iconset_dir, e[1]>> \in Saved =>
        /\ fs.files[menu_iconset_dir][e[1]].format = "PNG"
        /\ fs.files[menu_iconset_dir][e[1]].image.size = <<e[2], e[2]>>
        /\ fs.files[menu_iconset_dir][e[1]].image = create_menu_bar_icon(e[2])

C2_Witness ==
    /\ <<icon_dir, "icon_512x512@2x.png">> \in Saved
    /\ <<menu_iconset_dir, "menubar_16@3x.png">> \in Saved
    /\ fs.files[icon_dir]["icon_512x512@2x.png"].image.size = <<1024, 1024>>
    /\ fs.files[menu_iconset_dir]["menubar_16@3x.png"].image.size = <<48, 48>>

(* C3: in every image create_icon returns, no command drawn after the mask *)
(* is applied can write a pixel of a corner box of the mask; the pixels    *)
(* outside the rounded rectangle all lie in the corner boxes, so they keep *)
(* the alpha 0 the mask gave them.                                         *)
C3_OutsideTransparent ==
    \A img \in Returned :
        \A j \in (MaskIndex(img) + 1)..Len(img.ops) :
            \A c \in CornerBoxes(img) : Disjoint(Box(img.ops[j]), c)

C3_Witness ==
    /\ icon.size = <<1024, 1024>>
    /\ icon_2x.size = <<1024, 1024>>
    /\ Len(icon.ops) > MaskIndex(icon)
    /\ AlphaSet(icon, <<0, 0>>, 0) = {0}

(* C4: every pixel inside the rounded rectangle mask of an image           *)
(* create_icon returns has alpha 255.                                      *)
C4_InsideOpaque ==
    \A img \in Returned :
        \A p \in Pixels(img) :
            MaskAlphaSet(img, p) = {255} => AlphaSet(img, p, 255) = {255}

FirstEndpoint == <<76, 84, 200>>
SecondEndpoint == <<110, 115, 230>>

(* C5: in every image create_icon returns, each channel of the colour of   *)
(* the top row differs from (76, 84, 200) by at most 1 and each channel of *)
(* the colour of the bottom row differs from (110, 115, 230) by at most 1. *)
C5_GradientEndpoints ==
    \A img \in Returned :
        \A c \in 1..3 :
            /\ Abs(img.ops[1].fill[1][c] - FirstEndpoint[c]) <= 1
            /\ Abs(img.ops[1].fill[2][c] - SecondEndpoint[c]) <= 1

SuccessLine == "Beautiful feather-based icons created successfully!"

(* C7: a step in which a directory creation or a file write fails ends the *)
(* run there: it leaves every file the run had saved as it was, saves      *)
(* nothing, and after it the script takes no further step (no retry, no    *)
(* rendering, no write, no print), so the success message and the file     *)
(* counts are never printed.                                               *)
C7_FailureEndsRun ==
    [][ /\ failed => UNCHANGED <<pc, i, k, icon, icon_2x, menu_icon, fs, trace, out>>
        /\ (failed' /\ ~failed) =>
            /\ pc' = "aborted"
            /\ trace' = trace
            /\ \A q \in Saved : fs'.files[q[1]][q[2]] = fs.files[q[1]][q[2]]
            /\ ~ \E j \in 1..Len(out') : out'[j] = SuccessLine
      ]_vars

C7_Witness ==
    /\ failed
    /\ pc = "aborted"
    /\ <<icon_dir, "icon_64x64.png">> \in Saved
    /\ ~Printed(SuccessLine)

(* C8: every image create_icon returns has all 20 drawing commands and     *)
(* non-degenerate parameters: corner radius size // 8 (2 at size 16),      *)
(* shaft width >= 1, barb width >= 1, every dot radius >= 1 (so no         *)
(* inverted ellipse box) and triangle size >= 1.                           *)
C8_NonDegenerate ==
    \A img \in Returned :
        LET s == img.size[1] IN
        /\ Len(img.ops) = 20
        /\ img.ops[MaskIndex(img)].width = s \div 8
        /\ s = 16 => img.ops[MaskIndex(img)].width = 2
        /\ \A j \in Tagged(img, "shaft") : img.ops[j].width >= 1
        /\ Cardinality(Tagged(img, "barb")) = 12
        /\ \A j \in Tagged(img, "barb") : img.ops[j].width >= 1
        /\ Cardinality(Tagged(img, "dot")) = 3
        /\ \A j \in Tagged(img, "dot") :
            img.ops[j].pts[2][1] - img.ops[j].pts[1][1] >= 2
        /\ \A n \in 1..3 : dot_size(s, n) >= 1
        /\ triangle_size(s) >= 1
        /\ \A j \in Tagged(img, "triangle") :
            img.ops[j].pts[2][2] - img.ops[j].pts[1][2] >= 1

C8_Witness ==
    /\ pc = "save"
    /\ icon.size = <<16, 16>>
    /\ icon.ops[MaskIndex(icon)].width = 2
    /\ Len(icon.ops) = 20

(* C9: a makedirs step on a directory that exists succeeds and leaves the  *)
(* file system as it is, and every save of a run comes after that run's    *)
(* makedirs of the directory it writes into, which is then a directory.    *)
C9_DirsFirstIdempotent ==
    [][ /\ (pc \in MkdirPcs /\ fs.dirs[MkdirTarget] = "dir") =>
            (fs' = fs /\ ~failed' /\ pc' # "aborted")
        /\ \A j \in 1..Len(trace') : trace'[j][1] = "save" =>
            /\ \E m \in 1..(j - 1) : trace'[m] = <<"makedirs", trace'[j][2], "">>
            /\ fs'.dirs[trace'[j][2]] = "dir"
      ]_vars

C9_Witness ==
    /\ "Contents.json" \in ListDir(fs0, icon_dir)
    /\ "Contents.json" \in ListDir(fs, icon_dir)
    /\ fs0.dirs[menu_iconset_dir] = "absent"
    /\ <<menu_iconset_dir, "menubar_16.png">> \in Saved

(* C10: in every image create_icon returns, the radii of the three dots    *)
(* are strictly ordered: first > second > third.                           *)
C10_DotRadiiOrdered ==
    \A img \in Returned :
        /\ dot_size(img.size[1], 1) > dot_size(img.size[1], 2)
        /\ dot_size(img.size[1], 2) > dot_size(img.size[1], 3)

====
